---- MODULE Spec2Model ----
(***************************************************************************)
(* Model of evaluate.py: the precision / recall / F1 scorer for dialogue   *)
(* extraction tasks.                                                       *)
(*                                                                         *)
(* Text is a sequence of one-character strings, so that strip(), lower()   *)
(* and json.loads() are computed character by character.  Python values    *)
(* are tagged records [t, s, items]: t is the Python type, s the           *)
(* characters of a str, items the elements of a list or tuple.  The JSON   *)
(* the model reads is the subset made of strings without escapes, null and *)
(* arrays; the input alphabets hold no character that starts any other     *)
(* JSON value (no object, number, true or false reaches json.loads, so     *)
(* normalize_item's dict branch is never taken).  Floats are exact         *)
(* fractions <<numerator, denominator>>.  `tasks` is the set of the names  *)
(* in evaluate's task sequence.                                            *)
(***************************************************************************)
EXTENDS Integers, Sequences, FiniteSets, TLC

VARIABLES
    pc,             \* position inside evaluate()
    tasks,          \* evaluate's `tasks` argument
    gold_records,   \* load_records(gold_path)
    pred_records,   \* load_records(pred_path)
    stats,          \* evaluate's `stats`: task -> Counter(tp, fp, fn)
    pos,            \* index of the record the running loop visits next
    metrics,        \* compute_metrics(stats)
    prev_stats,     \* history: stats before the latest loop iteration
    last,           \* history: what the latest loop iteration did
    updates,        \* history: sample_id -> number of counter updates
    lines,          \* SpecLoad: the lines of the file load_records reads
    lineno,         \* SpecLoad: number of lines consumed
    records,        \* SpecLoad: load_records' `records`
    entry,          \* SpecItems: the argument of items_from_entry
    items           \* SpecItems: the returned item set

vars == <<pc, tasks, gold_records, pred_records, stats, pos, metrics, prev_stats, last, updates, lines, lineno, records, entry, items>>

-----------------------------------------------------------------------------
(* Python values *)

PyStr(s) == [t |-> "str", s |-> s, items |-> <<>>]

PyList(xs) == [t |-> "list", s |-> <<>>, items |-> xs]

PyTuple(xs) == [t |-> "tuple", s |-> <<>>, items |-> xs]

None == [t |-> "NoneType", s |-> <<>>, items |-> <<>>]

-----------------------------------------------------------------------------
(* Program constants *)

DEFAULT_TASKS == {"targets", "aspects", "opinions", "quadruples", "target-aspect", "target-opinion", "aspect-opinion"}

SENTINEL_NON_OP == <<"s","t","a","t","e","m","e","n","t","-","n","o","n","-","o","p","i","n","i","o","n">>

-----------------------------------------------------------------------------
(* str.strip, str.lower, json.loads *)

IsSpace(c) == c \in {" ", "\t", "\n", "\r"}

UpperCase == <<"A","B","C","D","E","F","G","H","I","J","K","L","M","N","O","P","Q","R","S","T","U","V","W","X","Y","Z">>

LowerCase == <<"a","b","c","d","e","f","g","h","i","j","k","l","m","n","o","p","q","r","s","t","u","v","w","x","y","z">>

lower_char(c) == IF \E k \in 1..26 : UpperCase[k] = c THEN LowerCase[CHOOSE k \in 1..26 : UpperCase[k] = c] ELSE c

lower(s) == [k \in 1..Len(s) |-> lower_char(s[k])]

strip(s) ==
    LET keep == {k \in 1..Len(s) : ~IsSpace(s[k])}
        lo == CHOOSE k \in keep : \A j \in keep : k <= j
        hi == CHOOSE k \in keep : \A j \in keep : j <= k
    IN IF keep = {} THEN <<>> ELSE SubSeq(s, lo, hi)

RECURSIVE skip_ws(_, _)
skip_ws(s, i) == IF i <= Len(s) /\ IsSpace(s[i]) THEN skip_ws(s, i + 1) ELSE i

JSONDecodeError == [ok |-> FALSE, val |-> None, next |-> 0]

RECURSIVE scan_string(_, _)
scan_string(s, i) ==
    IF i > Len(s) THEN 0
    ELSE IF s[i] = "\"" THEN i
    ELSE scan_string(s, i + 1)

RECURSIVE parse_value(_, _)
RECURSIVE parse_array(_, _, _)
parse_value(s, i) ==
    IF i > Len(s) THEN JSONDecodeError
    ELSE IF s[i] = "\"" THEN
        LET close == scan_string(s, i + 1)
        IN IF close = 0 THEN JSONDecodeError
           ELSE [ok |-> TRUE, val |-> PyStr(SubSeq(s, i + 1, close - 1)), next |-> close + 1]
    ELSE IF i + 3 <= Len(s) /\ SubSeq(s, i, i + 3) = <<"n","u","l","l">> THEN
        [ok |-> TRUE, val |-> None, next |-> i + 4]
    ELSE IF s[i] = "[" THEN
        LET j == skip_ws(s, i + 1)
        IN IF j <= Len(s) /\ s[j] = "]"
           THEN [ok |-> TRUE, val |-> PyList(<<>>), next |-> j + 1]
           ELSE parse_array(s, j, <<>>)
    ELSE JSONDecodeError

parse_array(s, i, acc) ==
    LET v == parse_value(s, i)
        j == skip_ws(s, v.next)
    IN IF ~v.ok \/ j > Len(s) THEN JSONDecodeError
       ELSE IF s[j] = "]" THEN [ok |-> TRUE, val |-> PyList(Append(acc, v.val)), next |-> j + 1]
       ELSE IF s[j] = "," THEN parse_array(s, skip_ws(s, j + 1), Append(acc, v.val))
       ELSE JSONDecodeError

json_loads(s) ==
    LET v == parse_value(s, skip_ws(s, 1))
    IN IF v.ok /\ skip_ws(s, v.next) = Len(s) + 1 THEN v ELSE JSONDecodeError

-----------------------------------------------------------------------------
(* parse_target_field, normalize_item, items_from_entry *)

get(obj, key) == IF key \in DOMAIN obj THEN obj[key] ELSE None

parse_target_field_case_sensitive(raw) ==
    IF raw = None THEN PyList(<<>>)
    ELSE LET text == strip(raw.s)
             decoded == json_loads(text)
         IN IF text = <<>> THEN PyList(<<>>)
            ELSE IF text = SENTINEL_NON_OP THEN PyStr(SENTINEL_NON_OP)
            ELSE IF decoded.ok THEN decoded.val
            ELSE PyStr(text)

parse_target_field(raw) ==
    IF raw = None THEN PyList(<<>>)
    ELSE LET text == strip(raw.s)
             decoded == json_loads(text)
         IN IF text = <<>> THEN PyList(<<>>)
            ELSE IF lower(text) = SENTINEL_NON_OP THEN PyStr(SENTINEL_NON_OP)
            ELSE IF decoded.ok THEN decoded.val
            ELSE PyStr(text)

RECURSIVE normalize_item(_)
normalize_item(value) ==
    IF value.t = "str" THEN PyStr(strip(value.s))
    ELSE IF value.t = "list" THEN PyTuple([k \in 1..Len(value.items) |-> normalize_item(value.items[k])])
    ELSE value

NoEntry == [absent |-> TRUE]

items_from_entry(e) ==
    IF e = NoEntry THEN {}
    ELSE LET parsed == parse_target_field(get(e, "target"))
             iterable == IF parsed.t = "list" THEN parsed.items
                         ELSE IF parsed \in {None, PyStr(<<>>)} THEN <<>>
                         ELSE <<parsed>>
         IN IF parsed = PyStr(SENTINEL_NON_OP) THEN {}
            ELSE {normalize_item(iterable[k]) : k \in {j \in 1..Len(iterable) : iterable[j] \notin {None, PyStr(<<>>)}}}

-----------------------------------------------------------------------------
(* load_records.  A line is blank, is not JSON, or holds a JSON object; an *)
(* object is a record over the keys it has.  The returned dict is the      *)
(* sequence of its values in insertion order, keyed by their sample_id.    *)

BlankLine == [kind |-> "blank"]

MalformedLine == [kind |-> "malformed"]

ObjectLine(obj) == [kind |-> "object", obj |-> obj]

contains(recs, sample_id) == \E k \in 1..Len(recs) : recs[k].sample_id = sample_id

lookup(recs, sample_id) ==
    IF contains(recs, sample_id)
    THEN recs[CHOOSE k \in 1..Len(recs) : recs[k].sample_id = sample_id]
    ELSE NoEntry

load_line_overwrite(recs, line) ==
    IF line.kind = "blank" THEN [err |-> FALSE, records |-> recs]
    ELSE IF line.kind = "malformed" THEN [err |-> TRUE, records |-> recs]
    ELSE IF "sample_id" \notin DOMAIN line.obj \/ line.obj.sample_id = "" THEN [err |-> TRUE, records |-> recs]
    ELSE IF contains(recs, line.obj.sample_id)
         THEN [err |-> FALSE, records |-> [k \in 1..Len(recs) |-> IF recs[k].sample_id = line.obj.sample_id THEN line.obj ELSE recs[k]]]
    ELSE [err |-> FALSE, records |-> Append(recs, line.obj)]

load_line(recs, line) ==
    IF line.kind = "blank" THEN [err |-> FALSE, records |-> recs]
    ELSE IF line.kind = "malformed" THEN [err |-> TRUE, records |-> recs]
    ELSE IF "sample_id" \notin DOMAIN line.obj \/ line.obj.sample_id = "" THEN [err |-> TRUE, records |-> recs]
    ELSE IF contains(recs, line.obj.sample_id) THEN [err |-> TRUE, records |-> recs]
    ELSE [err |-> FALSE, records |-> Append(recs, line.obj)]

RECURSIVE load_from(_, _, _)
load_from(file, n, recs) ==
    IF n >= Len(file) THEN [err |-> FALSE, records |-> recs]
    ELSE LET r == load_line(recs, file[n + 1])
         IN IF r.err THEN r ELSE load_from(file, n + 1, r.records)

load_records(file) == load_from(file, 0, <<>>)

-----------------------------------------------------------------------------
(* update_counts, and the two loops of evaluate *)

ZeroCounter == [tp |-> 0, fp |-> 0, fn |-> 0]

update_counts_swapped(st, task_type, gold_items, pred_items) ==
    [st EXCEPT ![task_type] = [tp |-> @.tp + Cardinality(gold_items \cap pred_items),
                               fp |-> @.fp + Cardinality(gold_items \ pred_items),
                               fn |-> @.fn + Cardinality(pred_items \ gold_items)]]

update_counts(st, task_type, gold_items, pred_items) ==
    [st EXCEPT ![task_type] = [tp |-> @.tp + Cardinality(gold_items \cap pred_items),
                               fp |-> @.fp + Cardinality(pred_items \ gold_items),
                               fn |-> @.fn + Cardinality(gold_items \ pred_items)]]

gold_skipped(gold, tsk) == gold.task_type \notin tsk

gold_pred_entry_same_task(gold, preds) ==
    IF contains(preds, gold.sample_id) /\ lookup(preds, gold.sample_id).task_type = gold.task_type
    THEN lookup(preds, gold.sample_id)
    ELSE NoEntry

gold_pred_entry(gold, preds) == lookup(preds, gold.sample_id)

gold_step(st, gold, preds, tsk) ==
    IF gold_skipped(gold, tsk) THEN st
    ELSE update_counts(st, gold.task_type, items_from_entry(gold), items_from_entry(gold_pred_entry(gold, preds)))

pred_skipped_and(pred, golds, tsk) == pred.task_type \notin tsk /\ contains(golds, pred.sample_id)

pred_skipped_task_only(pred, golds, tsk) == pred.task_type \notin tsk

pred_skipped(pred, golds, tsk) == pred.task_type \notin tsk \/ contains(golds, pred.sample_id)

pred_only_count_fn(st, task_type, pred_items) == [st EXCEPT ![task_type].fn = @ + Cardinality(pred_items)]

pred_only_count(st, task_type, pred_items) == [st EXCEPT ![task_type].fp = @ + Cardinality(pred_items)]

pred_step(st, pred, golds, tsk) ==
    IF pred_skipped(pred, golds, tsk) THEN st
    ELSE pred_only_count(st, pred.task_type, items_from_entry(pred))

initial_stats(tsk) == [task \in tsk |-> ZeroCounter]

RECURSIVE gold_loop(_, _, _, _, _)
gold_loop(st, golds, k, preds, tsk) ==
    IF k > Len(golds) THEN st
    ELSE gold_loop(gold_step(st, golds[k], preds, tsk), golds, k + 1, preds, tsk)

RECURSIVE pred_loop(_, _, _, _, _)
pred_loop(st, preds, k, golds, tsk) ==
    IF k > Len(preds) THEN st
    ELSE pred_loop(pred_step(st, preds[k], golds, tsk), preds, k + 1, golds, tsk)

evaluate_stats(golds, preds, tsk) == pred_loop(gold_loop(initial_stats(tsk), golds, 1, preds, tsk), preds, 1, golds, tsk)

-----------------------------------------------------------------------------
(* safe_div and compute_metrics.  A float is the exact fraction <<n, d>>   *)
(* in lowest terms with d > 0; <<1, 0>> stands for the ZeroDivisionError   *)
(* an unguarded division by zero raises.                                   *)

RECURSIVE gcd(_, _)
gcd(a, b) == IF b = 0 THEN a ELSE gcd(b, a % b)

ZeroDivisionError == <<1, 0>>

frac(n, d) == IF d = 0 THEN ZeroDivisionError ELSE LET g == gcd(n, d) IN <<n \div g, d \div g>>

float(n) == <<n, 1>>

fadd(a, b) == frac(a[1] * b[2] + b[1] * a[2], a[2] * b[2])

fmul(a, b) == frac(a[1] * b[1], a[2] * b[2])

fdiv(a, b) == IF a[2] = 0 \/ b[2] = 0 THEN ZeroDivisionError ELSE frac(a[1] * b[2], a[2] * b[1])

safe_div_unguarded(numerator, denominator) == fdiv(numerator, denominator)

safe_div(numerator, denominator) ==
    IF denominator # float(0) THEN fdiv(numerator, denominator) ELSE float(0)

counter_get(c, key) == IF key \in DOMAIN c THEN c[key] ELSE 0

counter_iadd(c, other) ==
    LET keys == {k \in DOMAIN c \cup DOMAIN other : counter_get(c, k) + counter_get(other, k) > 0}
    IN [k \in keys |-> counter_get(c, k) + counter_get(other, k)]

RECURSIVE total_counts(_, _, _)
total_counts(st, todo, total) ==
    IF todo = {} THEN total
    ELSE LET task == CHOOSE t \in todo : TRUE
         IN total_counts(st, todo \ {task}, counter_iadd(total, st[task]))

metrics_row(counts) ==
    LET precision == safe_div(float(counter_get(counts, "tp")), float(counter_get(counts, "tp") + counter_get(counts, "fp")))
        recall == safe_div(float(counter_get(counts, "tp")), float(counter_get(counts, "tp") + counter_get(counts, "fn")))
        f1 == safe_div(fmul(float(2), fmul(precision, recall)), fadd(precision, recall))
    IN [precision |-> precision, recall |-> recall, f1 |-> f1,
        tp |-> counter_get(counts, "tp"), fp |-> counter_get(counts, "fp"), fn |-> counter_get(counts, "fn")]

RECURSIVE macro_sum(_, _, _)
macro_sum(st, todo, field) ==
    IF todo = {} THEN float(0)
    ELSE LET task == CHOOSE t \in todo : TRUE
         IN fadd(metrics_row(st[task])[field], macro_sum(st, todo \ {task}, field))

overall_row_macro(st) ==
    LET total == total_counts(st, DOMAIN st, ZeroCounter)
        n == float(Cardinality(DOMAIN st))
    IN [precision |-> safe_div(macro_sum(st, DOMAIN st, "precision"), n),
        recall |-> safe_div(macro_sum(st, DOMAIN st, "recall"), n),
        f1 |-> safe_div(macro_sum(st, DOMAIN st, "f1"), n),
        tp |-> counter_get(total, "tp"), fp |-> counter_get(total, "fp"), fn |-> counter_get(total, "fn")]

overall_row(st) == metrics_row(total_counts(st, DOMAIN st, ZeroCounter))

compute_metrics(st) ==
    [task \in DOMAIN st \cup {"overall"} |-> IF task = "overall" THEN overall_row(st) ELSE metrics_row(st[task])]

raises(m) == \E task \in DOMAIN m : ZeroDivisionError \in {m[task].precision, m[task].recall, m[task].f1}

-----------------------------------------------------------------------------
(* Inputs *)

MaxLines == 2

MaxCount == 2

MaxTargetLen == 3

SampleIds == {"s1", "s2"}

RecordTasks == {"targets", "aspects"}

TaskChoices == {{}, {"targets"}, {"targets", "aspects"}}

TargetA == <<"[", "\"", "a", "\"", "]">>

TargetAB == <<"[", "\"", "a", "\"", ",", " ", "\"", "b", "\"", "]">>

TargetSentinel == <<" ","S","t","a","t","e","m","e","n","t","-","N","O","N","-","o","p","i","n","i","o","n">>

SentinelUpper == <<"S","T","A","T","E","M","E","N","T","-","N","O","N","-","O","P","I","N","I","O","N">>

SentinelTexts == {SENTINEL_NON_OP, SentinelUpper, TargetSentinel}

EvalTargets == {TargetA, TargetAB, TargetSentinel}

Objects == {[sample_id |-> i, task_type |-> t, target |-> PyStr(x)] : i \in SampleIds, t \in RecordTasks, x \in EvalTargets}

Lines ==
    {BlankLine, MalformedLine,
     ObjectLine([task_type |-> "targets", target |-> PyStr(TargetA)]),
     ObjectLine([sample_id |-> "", task_type |-> "targets", target |-> PyStr(TargetA)])}
    \cup {ObjectLine(o) : o \in Objects}

Files == UNION {[1..n -> Lines] : n \in 0..MaxLines}

NoCall == [kind |-> "none", sample_id |-> "", task |-> ""]

-----------------------------------------------------------------------------
(* evaluate: load both files, zero the counters, the gold loop, the        *)
(* prediction-only loop, compute_metrics.  An exception ends the run with  *)
(* pc naming it: ValueError from load_records, KeyError from stats[task]   *)
(* for a task without a counter, ZeroDivisionError from a division.        *)

load_vars == <<lines, lineno, records>>

items_vars == <<entry, items>>

Init ==
    /\ pc = "load_gold"
    /\ tasks \in TaskChoices
    /\ gold_records = <<>>
    /\ pred_records = <<>>
    /\ stats = <<>>
    /\ pos = 0
    /\ metrics = <<>>
    /\ prev_stats = <<>>
    /\ last = NoCall
    /\ updates = [i \in SampleIds |-> 0]
    /\ lines = <<>>
    /\ lineno = 0
    /\ records = <<>>
    /\ entry = NoEntry
    /\ items = {}

LoadGold ==
    /\ pc = "load_gold"
    /\ \E file \in Files :
        LET r == load_records(file)
        IN /\ gold_records' = IF r.err THEN gold_records ELSE r.records
           /\ pc' = IF r.err THEN "ValueError" ELSE "load_pred"
    /\ UNCHANGED <<tasks, pred_records, stats, pos, metrics, prev_stats, last, updates, load_vars, items_vars>>

LoadPred ==
    /\ pc = "load_pred"
    /\ \E file \in Files :
        LET r == load_records(file)
        IN /\ pred_records' = IF r.err THEN pred_records ELSE r.records
           /\ pc' = IF r.err THEN "ValueError" ELSE "init_stats"
    /\ UNCHANGED <<tasks, gold_records, stats, pos, metrics, prev_stats, last, updates, load_vars, items_vars>>

InitStats ==
    /\ pc = "init_stats"
    /\ stats' = initial_stats(tasks)
    /\ prev_stats' = initial_stats(tasks)
    /\ pos' = 1
    /\ pc' = "gold_pass"
    /\ UNCHANGED <<tasks, gold_records, pred_records, metrics, last, updates, load_vars, items_vars>>

GoldSkip ==
    /\ pc = "gold_pass"
    /\ pos <= Len(gold_records)
    /\ gold_skipped(gold_records[pos], tasks)
    /\ pos' = pos + 1
    /\ prev_stats' = stats
    /\ last' = [kind |-> "gold_skip", sample_id |-> gold_records[pos].sample_id, task |-> gold_records[pos].task_type]
    /\ UNCHANGED <<pc, tasks, gold_records, pred_records, stats, metrics, updates, load_vars, items_vars>>

GoldScore ==
    /\ pc = "gold_pass"
    /\ pos <= Len(gold_records)
    /\ ~gold_skipped(gold_records[pos], tasks)
    /\ LET gold == gold_records[pos]
       IN IF gold.task_type \notin DOMAIN stats
          THEN /\ pc' = "KeyError"
               /\ UNCHANGED <<stats, pos, prev_stats, last, updates>>
          ELSE /\ stats' = gold_step(stats, gold, pred_records, tasks)
               /\ pos' = pos + 1
               /\ prev_stats' = stats
               /\ last' = [kind |-> "gold", sample_id |-> gold.sample_id, task |-> gold.task_type]
               /\ updates' = [updates EXCEPT ![gold.sample_id] = @ + 1]
               /\ pc' = pc
    /\ UNCHANGED <<tasks, gold_records, pred_records, metrics, load_vars, items_vars>>

GoldEnd ==
    /\ pc = "gold_pass"
    /\ pos > Len(gold_records)
    /\ pos' = 1
    /\ pc' = "pred_pass"
    /\ UNCHANGED <<tasks, gold_records, pred_records, stats, metrics, prev_stats, last, updates, load_vars, items_vars>>

PredSkip ==
    /\ pc = "pred_pass"
    /\ pos <= Len(pred_records)
    /\ pred_skipped(pred_records[pos], gold_records, tasks)
    /\ pos' = pos + 1
    /\ prev_stats' = stats
    /\ last' = [kind |-> "pred_skip", sample_id |-> pred_records[pos].sample_id, task |-> pred_records[pos].task_type]
    /\ UNCHANGED <<pc, tasks, gold_records, pred_records, stats, metrics, updates, load_vars, items_vars>>

PredCount ==
    /\ pc = "pred_pass"
    /\ pos <= Len(pred_records)
    /\ ~pred_skipped(pred_records[pos], gold_records, tasks)
    /\ LET pred == pred_records[pos]
       IN IF pred.task_type \notin DOMAIN stats
          THEN /\ pc' = "KeyError"
               /\ UNCHANGED <<stats, pos, prev_stats, last, updates>>
          ELSE /\ stats' = pred_step(stats, pred, gold_records, tasks)
               /\ pos' = pos + 1
               /\ prev_stats' = stats
               /\ last' = [kind |-> "pred_only", sample_id |-> pred.sample_id, task |-> pred.task_type]
               /\ updates' = [updates EXCEPT ![pred.sample_id] = @ + 1]
               /\ pc' = pc
    /\ UNCHANGED <<tasks, gold_records, pred_records, metrics, load_vars, items_vars>>

PredEnd ==
    /\ pc = "pred_pass"
    /\ pos > Len(pred_records)
    /\ pc' = "compute"
    /\ UNCHANGED <<tasks, gold_records, pred_records, stats, pos, metrics, prev_stats, last, updates, load_vars, items_vars>>

ComputeMetrics ==
    /\ pc = "compute"
    /\ LET m == compute_metrics(stats)
       IN /\ metrics' = IF raises(m) THEN metrics ELSE m
          /\ pc' = IF raises(m) THEN "ZeroDivisionError" ELSE "done"
    /\ UNCHANGED <<tasks, gold_records, pred_records, stats, pos, prev_stats, last, updates, load_vars, items_vars>>

Next ==
    \/ LoadGold
    \/ LoadPred
    \/ InitStats
    \/ GoldSkip
    \/ GoldScore
    \/ GoldEnd
    \/ PredSkip
    \/ PredCount
    \/ PredEnd
    \/ ComputeMetrics

Spec == Init /\ [][Next]_vars

-----------------------------------------------------------------------------
(* load_records read line by line *)

eval_vars == <<tasks, gold_records, pred_records, stats, pos, metrics, prev_stats, last, updates>>

InitLoad ==
    /\ pc = "reading"
    /\ lines \in Files
    /\ lineno = 0
    /\ records = <<>>
    /\ tasks = {}
    /\ gold_records = <<>>
    /\ pred_records = <<>>
    /\ stats = <<>>
    /\ pos = 0
    /\ metrics = <<>>
    /\ prev_stats = <<>>
    /\ last = NoCall
    /\ updates = [i \in SampleIds |-> 0]
    /\ entry = NoEntry
    /\ items = {}

ReadLine ==
    /\ pc = "reading"
    /\ lineno < Len(lines)
    /\ LET r == load_line(records, lines[lineno + 1])
       IN /\ records' = r.records
          /\ pc' = IF r.err THEN "ValueError" ELSE "reading"
    /\ lineno' = lineno + 1
    /\ UNCHANGED <<lines, eval_vars, items_vars>>

ReturnRecords ==
    /\ pc = "reading"
    /\ lineno = Len(lines)
    /\ pc' = "returned"
    /\ UNCHANGED <<lines, lineno, records, eval_vars, items_vars>>

NextLoad ==
    \/ ReadLine
    \/ ReturnRecords

SpecLoad == InitLoad /\ [][NextLoad]_vars

-----------------------------------------------------------------------------
(* items_from_entry applied to one record *)

Alphabet == {" ", "\"", "[", "]", ",", "a"}

Texts == UNION {[1..n -> Alphabet] : n \in 0..MaxTargetLen}

TargetNull == <<"n", "u", "l", "l">>

TargetNullList == <<"[", "n", "u", "l", "l", ",", "\"", "a", "\"", "]">>

TargetNested == <<"[", "[", "\"", "a", "\"", ",", "n", "u", "l", "l", "]", "]">>

LongTexts == SentinelTexts \cup {TargetA, TargetAB, TargetNull, TargetNullList, TargetNested}

Entries ==
    {NoEntry, [sample_id |-> "s1", task_type |-> "targets"]}
    \cup {[sample_id |-> "s1", task_type |-> "targets", target |-> PyStr(x)] : x \in Texts \cup LongTexts}

InitItems ==
    /\ pc = "call"
    /\ entry \in Entries
    /\ items = {}
    /\ tasks = {}
    /\ gold_records = <<>>
    /\ pred_records = <<>>
    /\ stats = <<>>
    /\ pos = 0
    /\ metrics = <<>>
    /\ prev_stats = <<>>
    /\ last = NoCall
    /\ updates = [i \in SampleIds |-> 0]
    /\ lines = <<>>
    /\ lineno = 0
    /\ records = <<>>

ItemsFromEntry ==
    /\ pc = "call"
    /\ items' = items_from_entry(entry)
    /\ pc' = "returned"
    /\ UNCHANGED <<entry, eval_vars, load_vars>>

NextItems == ItemsFromEntry

SpecItems == InitItems /\ [][NextItems]_vars

-----------------------------------------------------------------------------
(* update_counts and compute_metrics applied to arbitrary counters *)

ItemUniverse == {PyStr(<<"a">>), PyTuple(<<PyStr(<<"a">>), PyStr(<<"b">>)>>)}

CountTasks == {"targets", "aspects"}

Counters == [tp : 0..MaxCount, fp : 0..MaxCount, fn : 0..MaxCount]

InitCounts ==
    /\ pc = "start"
    /\ tasks = CountTasks
    /\ stats \in [CountTasks -> Counters]
    /\ prev_stats = stats
    /\ last = NoCall
    /\ metrics = <<>>
    /\ gold_records = <<>>
    /\ pred_records = <<>>
    /\ pos = 0
    /\ updates = [i \in SampleIds |-> 0]
    /\ lines = <<>>
    /\ lineno = 0
    /\ records = <<>>
    /\ entry = NoEntry
    /\ items = {}

UpdateCounts ==
    /\ pc = "start"
    /\ \E task \in tasks, gold_items \in SUBSET ItemUniverse, pred_items \in SUBSET ItemUniverse :
        /\ stats' = update_counts(stats, task, gold_items, pred_items)
        /\ last' = [kind |-> "update_counts", task |-> task, gold_items |-> gold_items, pred_items |-> pred_items]
    /\ prev_stats' = stats
    /\ pc' = "updated"
    /\ UNCHANGED <<tasks, metrics, gold_records, pred_records, pos, updates, load_vars, items_vars>>

Aggregate ==
    /\ pc \in {"start", "updated"}
    /\ LET m == compute_metrics(stats)
       IN /\ metrics' = IF raises(m) THEN metrics ELSE m
          /\ pc' = IF raises(m) THEN "ZeroDivisionError" ELSE "aggregated"
    /\ UNCHANGED <<tasks, stats, prev_stats, last, gold_records, pred_records, pos, updates, load_vars, items_vars>>

NextCounts ==
    \/ UpdateCounts
    \/ Aggregate

SpecCounts == InitCounts /\ [][NextCounts]_vars

-----------------------------------------------------------------------------
(* Properties of evaluate *)

Scored == last.kind \in {"gold", "pred_only"}

LastGold == lookup(gold_records, last.sample_id)

LastPred == lookup(pred_records, last.sample_id)

Delta(task) == <<stats[task].tp - prev_stats[task].tp, stats[task].fp - prev_stats[task].fp, stats[task].fn - prev_stats[task].fn>>

SetScore(g, p) == <<Cardinality(g \cap p), Cardinality(p \ g), Cardinality(g \ p)>>

HasSentinel(rec) == rec # NoEntry /\ "target" \in DOMAIN rec /\ rec.target.s \in SentinelTexts

\* C1 as stated: a gold sample of a requested task is scored against the empty
\* set when no prediction has its sample_id or when the prediction with its
\* sample_id has another task_type, and against that prediction's items only
\* when the task_type is the same.
C1_Original ==
    last.kind = "gold" =>
        Delta(last.task) = SetScore(items_from_entry(LastGold),
                                    IF LastPred # NoEntry /\ LastPred.task_type = LastGold.task_type
                                    THEN items_from_entry(LastPred) ELSE {})

\* C1 amended: a gold sample of a requested task is scored, under the gold
\* record's task_type, against the items of the prediction that has its
\* sample_id, whatever that prediction's task_type, and against the empty set
\* only when no prediction has its sample_id.
C1_Amended ==
    last.kind = "gold" =>
        /\ last.task = LastGold.task_type
        /\ last.task \in tasks
        /\ Delta(last.task) = SetScore(items_from_entry(LastGold),
                                       IF LastPred # NoEntry THEN items_from_entry(LastPred) ELSE {})

C1_Witness ==
    /\ last.kind = "gold"
    /\ LastPred # NoEntry
    /\ LastPred.task_type # LastGold.task_type
    /\ Delta(last.task)[1] = 1

\* C2 as stated: a record whose target is the sentinel in any letter case has
\* an empty item set, and a sample whose gold or predicted record carries the
\* sentinel adds nothing to tp, fp or fn of any counter.
C2_Original ==
    /\ \A x \in SentinelTexts : items_from_entry([sample_id |-> "s1", task_type |-> "targets", target |-> PyStr(x)]) = {}
    /\ (Scored /\ (HasSentinel(LastGold) \/ HasSentinel(LastPred))) => stats = prev_stats

\* C2 amended: a record whose target is the sentinel in any letter case has an
\* empty item set; a scored gold sample carrying the sentinel adds nothing to
\* tp and fn and adds the number of predicted items to fp; a scored gold
\* sample whose prediction carries the sentinel adds nothing to tp and fp and
\* adds the number of gold items to fn; a prediction-only sample carrying the
\* sentinel adds nothing; the counters of the other tasks do not change.
C2_Amended ==
    /\ \A x \in SentinelTexts : items_from_entry([sample_id |-> "s1", task_type |-> "targets", target |-> PyStr(x)]) = {}
    /\ \A k \in 1..Len(gold_records) : HasSentinel(gold_records[k]) => items_from_entry(gold_records[k]) = {}
    /\ \A k \in 1..Len(pred_records) : HasSentinel(pred_records[k]) => items_from_entry(pred_records[k]) = {}
    /\ (last.kind = "gold" /\ HasSentinel(LastGold)) =>
            Delta(last.task) = <<0, Cardinality(items_from_entry(LastPred)), 0>>
    /\ (last.kind = "gold" /\ HasSentinel(LastPred)) =>
            Delta(last.task) = <<0, 0, Cardinality(items_from_entry(LastGold))>>
    /\ (last.kind = "pred_only" /\ HasSentinel(LastPred)) => stats = prev_stats
    /\ (Scored /\ (HasSentinel(LastGold) \/ HasSentinel(LastPred))) =>
            \A task \in tasks \ {last.task} : stats[task] = prev_stats[task]

C2_Witness ==
    /\ last.kind = "gold"
    /\ HasSentinel(LastGold)
    /\ LastPred # NoEntry
    /\ Delta(last.task) = <<0, 2, 0>>

Requested(recs) == LET keep(r) == r.task_type \in tasks IN SelectSeq(recs, keep)

UnrequestedSample(sample_id) ==
    /\ contains(gold_records, sample_id) => lookup(gold_records, sample_id).task_type \notin tasks
    /\ contains(pred_records, sample_id) => lookup(pred_records, sample_id).task_type \notin tasks

WithoutUnrequestedSamples(recs) == LET keep(r) == ~UnrequestedSample(r.sample_id) IN SelectSeq(recs, keep)

\* C3 as stated: the run ends without error, and with the counters it would
\* end with were every record whose task_type is not requested removed from
\* both collections.
C3_Original ==
    /\ pc # "KeyError"
    /\ pc = "done" => stats = evaluate_stats(Requested(gold_records), Requested(pred_records), tasks)

\* C3 amended: the run ends without error, and with the counters it would end
\* with were every sample removed whose task_type is not requested in every
\* collection that holds it (a record whose task_type is not requested, but
\* whose sample_id has a record of a requested task_type in the other
\* collection, stays).
C3_Amended ==
    /\ pc # "KeyError"
    /\ pc = "done" => stats = evaluate_stats(WithoutUnrequestedSamples(gold_records), WithoutUnrequestedSamples(pred_records), tasks)

C3_Witness ==
    /\ pc = "done"
    /\ Len(WithoutUnrequestedSamples(gold_records)) < Len(gold_records)
    /\ Len(WithoutUnrequestedSamples(pred_records)) < Len(pred_records)
    /\ \E task \in tasks : stats[task].tp > 0

\* C5: a prediction whose sample_id is not in the gold collection and whose
\* task_type is requested is counted exactly once; the count adds the size of
\* its item set to fp of its task_type and nothing to tp or fn, and leaves
\* every other counter as it was.
C5_PredOnlyFalsePositives ==
    /\ last.kind = "pred_only" =>
        /\ ~contains(gold_records, last.sample_id)
        /\ last.task = LastPred.task_type
        /\ last.task \in tasks
        /\ Delta(last.task) = <<0, Cardinality(items_from_entry(LastPred)), 0>>
        /\ \A task \in tasks \ {last.task} : stats[task] = prev_stats[task]
    /\ pc \in {"compute", "done"} =>
        \A k \in 1..Len(pred_records) :
            (~contains(gold_records, pred_records[k].sample_id) /\ pred_records[k].task_type \in tasks)
                => updates[pred_records[k].sample_id] = 1

C5_Witness ==
    /\ last.kind = "pred_only"
    /\ ~contains(gold_records, last.sample_id)
    /\ Delta(last.task) = <<0, 2, 0>>
    /\ Len(gold_records) > 0

\* C10: the counters start at zero; no component of a counter decreases in a
\* loop iteration; a sample_id causes at most one counter update, and an
\* update changes the counter of one task type only.
C10_CountersAccumulate ==
    /\ (pc = "gold_pass" /\ last = NoCall) => \A task \in tasks : stats[task] = ZeroCounter
    /\ pc \in {"gold_pass", "pred_pass", "compute", "done"} =>
        /\ DOMAIN stats = tasks
        /\ \A task \in tasks :
            /\ stats[task].tp >= prev_stats[task].tp
            /\ stats[task].fp >= prev_stats[task].fp
            /\ stats[task].fn >= prev_stats[task].fn
        /\ \A i \in SampleIds : updates[i] <= 1
        /\ Scored => \A task \in tasks \ {last.task} : stats[task] = prev_stats[task]
        /\ ~Scored => stats = prev_stats

C10_Witness ==
    /\ pc = "done"
    /\ \E i \in SampleIds :
        /\ contains(gold_records, i) /\ lookup(gold_records, i).task_type \in tasks
        /\ contains(pred_records, i) /\ lookup(pred_records, i).task_type \in tasks
        /\ updates[i] = 1
    /\ \E i \in SampleIds : ~contains(gold_records, i) /\ updates[i] = 1
    /\ \E task \in tasks : stats[task].tp > 0 /\ stats[task].fp > 0

-----------------------------------------------------------------------------
(* Properties of update_counts and compute_metrics *)

RECURSIVE SumOver(_, _)
SumOver(todo, field) ==
    IF todo = {} THEN 0
    ELSE LET task == CHOOSE t \in todo : TRUE IN stats[task][field] + SumOver(todo \ {task}, field)

\* C4: update_counts adds |gold & pred| to tp, |pred - gold| to fp and
\* |gold - pred| to fn of the counter of task_type, items matching only when
\* they are equal, and leaves the counter of every other task type as it was.
C4_UpdateCounts ==
    pc = "updated" =>
        /\ stats[last.task].tp = prev_stats[last.task].tp + Cardinality({x \in ItemUniverse : x \in last.gold_items /\ x \in last.pred_items})
        /\ stats[last.task].fp = prev_stats[last.task].fp + Cardinality({x \in ItemUniverse : x \in last.pred_items /\ x \notin last.gold_items})
        /\ stats[last.task].fn = prev_stats[last.task].fn + Cardinality({x \in ItemUniverse : x \in last.gold_items /\ x \notin last.pred_items})
        /\ \A task \in tasks \ {last.task} : stats[task] = prev_stats[task]

C4_Witness ==
    /\ pc = "updated"
    /\ last.gold_items = {PyTuple(<<PyStr(<<"a">>), PyStr(<<"b">>)>>)}
    /\ last.pred_items = {PyStr(<<"a">>)}
    /\ prev_stats[last.task] = [tp |-> 1, fp |-> 0, fn |-> 2]
    /\ stats[last.task] = [tp |-> 1, fp |-> 1, fn |-> 3]

\* C6: the "overall" row holds the sums of tp, fp and fn over all task
\* counters, and its precision, recall and F1 are those of the summed counts:
\* TP/(TP+FP), TP/(TP+FN) and 2TP/(2TP+FP+FN).
C6_OverallMicroAverage ==
    pc = "aggregated" =>
        LET o == metrics["overall"]
            TP == SumOver(tasks, "tp")
            FP == SumOver(tasks, "fp")
            FN == SumOver(tasks, "fn")
        IN /\ o.tp = TP /\ o.fp = FP /\ o.fn = FN
           /\ o.precision[2] > 0 /\ o.recall[2] > 0 /\ o.f1[2] > 0
           /\ TP + FP > 0 => o.precision[1] * (TP + FP) = TP * o.precision[2]
           /\ TP + FN > 0 => o.recall[1] * (TP + FN) = TP * o.recall[2]
           /\ TP > 0 => o.f1[1] * (2 * TP + FP + FN) = 2 * TP * o.f1[2]

C6_Witness ==
    /\ pc = "aggregated"
    /\ stats = [targets |-> [tp |-> 1, fp |-> 1, fn |-> 0], aspects |-> [tp |-> 2, fp |-> 0, fn |-> 1]]
    /\ metrics["overall"] = [precision |-> <<3, 4>>, recall |-> <<3, 4>>, f1 |-> <<3, 4>>, tp |-> 3, fp |-> 1, fn |-> 1]
    /\ metrics["targets"].f1 = <<2, 3>>
    /\ metrics["aspects"].f1 = <<4, 5>>

\* C7: compute_metrics never fails on non-negative counters; in every row
\* precision is 0 when tp+fp = 0, recall is 0 when tp+fn = 0, F1 is 0 when
\* precision+recall = 0, and otherwise precision = tp/(tp+fp) and
\* recall = tp/(tp+fn), both in [0,1].
C7_SafeDivision ==
    /\ pc # "ZeroDivisionError"
    /\ pc = "aggregated" =>
        /\ DOMAIN metrics = tasks \cup {"overall"}
        /\ \A task \in tasks : metrics[task].tp = stats[task].tp /\ metrics[task].fp = stats[task].fp /\ metrics[task].fn = stats[task].fn
        /\ \A k \in DOMAIN metrics :
            LET r == metrics[k]
            IN /\ r.precision[2] > 0 /\ r.recall[2] > 0 /\ r.f1[2] > 0
               /\ r.tp + r.fp = 0 => r.precision = <<0, 1>>
               /\ r.tp + r.fn = 0 => r.recall = <<0, 1>>
               /\ (r.precision[1] = 0 /\ r.recall[1] = 0) => r.f1 = <<0, 1>>
               /\ r.tp + r.fp > 0 => /\ r.precision[1] * (r.tp + r.fp) = r.tp * r.precision[2]
                                     /\ 0 <= r.precision[1] /\ r.precision[1] <= r.precision[2]
               /\ r.tp + r.fn > 0 => /\ r.recall[1] * (r.tp + r.fn) = r.tp * r.recall[2]
                                     /\ 0 <= r.recall[1] /\ r.recall[1] <= r.recall[2]

C7_Witness ==
    /\ pc = "aggregated"
    /\ stats["targets"] = ZeroCounter
    /\ metrics["targets"].precision = <<0, 1>>
    /\ stats["aspects"] = [tp |-> 0, fp |-> 1, fn |-> 2]
    /\ metrics["aspects"].f1 = <<0, 1>>
    /\ metrics["overall"].fn = 2

-----------------------------------------------------------------------------
(* Properties of load_records *)

HasNoId(k) == lines[k].kind = "object" /\ ("sample_id" \notin DOMAIN lines[k].obj \/ lines[k].obj.sample_id = "")

HasId(k) == lines[k].kind = "object" /\ ~HasNoId(k)

Repeats(k) == HasId(k) /\ \E j \in 1..(k - 1) : HasId(j) /\ lines[j].obj.sample_id = lines[k].obj.sample_id

MustFail == \E k \in 1..Len(lines) : HasNoId(k) \/ Repeats(k)

NonBlank == {k \in 1..Len(lines) : lines[k].kind # "blank"}

\* C8: load_records fails when a non-blank line has no sample_id or an empty
\* one, or when a sample_id is on two lines; it returns only when every line is
\* consumed, and then the mapping holds one record per non-blank line, in line
\* order, under that line's sample_id, each record the object of its line.
C8_LoadRecords ==
    /\ (MustFail /\ lineno = Len(lines)) => pc = "ValueError"
    /\ pc = "ValueError" => (lineno >= 1 /\ lines[lineno].kind # "blank")
    /\ pc = "returned" =>
        /\ ~MustFail
        /\ Len(records) = Cardinality(NonBlank)
        /\ \A k \in NonBlank :
            /\ HasId(k)
            /\ records[Cardinality({j \in NonBlank : j <= k})] = lines[k].obj
            /\ lookup(records, lines[k].obj.sample_id) = lines[k].obj

C8_Witness ==
    /\ pc = "ValueError"
    /\ lineno = 2
    /\ HasId(1) /\ HasId(2)
    /\ lines[1].obj.sample_id = lines[2].obj.sample_id
    /\ lines[1].obj # lines[2].obj
    /\ records = <<lines[1].obj>>

-----------------------------------------------------------------------------
(* Properties of items_from_entry *)

\* C9: the item set items_from_entry returns holds neither None nor the
\* empty string.
C9_NoEmptyItems == pc = "returned" => (None \notin items /\ PyStr(<<>>) \notin items)

====
